---- MODULE Spec2Model ----
(***************************************************************************)
(* Model of the Tello colour tracker, track_green_logo.py: the command     *)
(* loop of main() (takeoff / start / land / exit), the tracking loop that  *)
(* `start` enters, and the teardown of the finally block.                  *)
(*                                                                         *)
(* The drone SDK and OpenCV are collaborators.  Every call to the drone    *)
(* (takeoff, land, move_*, streamoff) is recorded in `calls` as an         *)
(* attempt, with ok = FALSE when the call raises; input() and the frame    *)
(* acquisition may raise as well.  An exception raised inside the try      *)
(* block goes to the finally block; one raised inside the finally block    *)
(* leaves main() at once.                                                  *)
(***************************************************************************)
EXTENDS Integers, Sequences, FiniteSets, TLC

VARIABLES
    pc,        \* position of main(): see PCs
    cmd,       \* main.cmd, the command last read (line 142)
    flying,    \* main.flying
    tracking,  \* main.tracking
    center,    \* main.center, the result of detect_object (line 164)
    key,       \* main.key, the key last polled by waitKey (line 185)
    windows,   \* the OpenCV windows that exist
    calls,     \* the calls made to the drone and destroyAllWindows, in order
    hist,      \* the commands read so far, in order
    nIter,     \* tracking-loop iterations started so far
    exc,       \* the exception that left the try block: "none" or its origin
    tdAt,      \* Len(calls) when the finally block was entered, else -1
    tdExc,     \* TRUE when an exception left the finally block
    quit,      \* Len(calls) and Len(hist) when 'q' was last received
    pid,       \* a utils.pid.PID object: kp, ki, kd, prev_error, integral
    upd,       \* the last PID.update call: arguments, return value, count
    det,       \* a detect_object call: the contours found and the result
    cfg        \* hsv_config.json, the calibrator's trackbars, and a
               \* load_hsv_config call

\* the state of the library code that main() does not touch after line 117
libVars == <<pid, upd, det, cfg>>

mainVars == <<pc, cmd, flying, tracking, center, key, windows, calls, hist,
              nIter, exc, tdAt, tdExc, quit>>

vars == <<pc, cmd, flying, tracking, center, key, windows, calls, hist,
          nIter, exc, tdAt, tdExc, quit, pid, upd, det, cfg>>

----------------------------------------------------------------------------
(* Bounds of the model *)

\* non-exit commands read in one run
MaxCmds == 4
\* tracking-loop iterations in one run
MaxIters == 2

----------------------------------------------------------------------------
(* Constants of the program *)

frame_width == 640
frame_height == 480
center_x == frame_width \div 2
center_y == frame_height \div 2
tolerance == 40
\* the distance of every move_* call, in cm
MoveDistance == 20

Commands == {"takeoff", "start", "land", "exit", "other"}
Motions == {"move_left", "move_right", "move_up", "move_down"}
Keys == {"q", "none"}

\* detect_object returns None or a centre inside the resized frame.  The
\* centres drawn put each offset, with the other axis centred, at -41, -40,
\* 0, 40 and 41, and both offsets outside the dead zone at once, among them
\* the (500, 100) of the 640x480 end-to-end scenario
NoCenter == <<>>
CenterXs == {279, 280, 320, 360, 361}
CenterYs == {199, 200, 240, 280, 281}
Centers ==
    {<<x, center_y>> : x \in CenterXs} \cup {<<center_x, y>> : y \in CenterYs}
      \cup {<<500, 100>>, <<279, 281>>}

PCs == {"input", "dispatch", "frame", "moveX", "moveY", "show",
        "td_land", "td_streamoff", "td_windows", "done"}
LoopPCs == {"frame", "moveX", "moveY", "show"}

NoQuit == [calls |-> -1, cmds |-> -1]

Call(op, arg, ok) == [op |-> op, arg |-> arg, ok |-> ok]

----------------------------------------------------------------------------
(* The conditions and computations of main() *)

\* mutant: takeoff without the test of flying
TakeoffAlways(f) == TRUE

\* line 145: `if not flying`
TakeoffAllowed(f) == ~f

\* mutants: start without the test of flying, and with the test inverted
StartAlways(f) == TRUE
StartInverted(f) == ~f

\* line 153: `if not flying: ... continue`
StartAllowed(f) == f

\* mutant: land without the test of flying
LandAlways(f) == TRUE

\* line 196: `if flying`
LandAllowed(f) == f

\* mutants: the finally block lands whatever flying is, and lands only when
\* not flying
TeardownLandsAlways(f) == TRUE
TeardownLandsInverted(f) == ~f

\* line 210: `if flying` of the finally block
TeardownLands(f) == f

\* line 169
OffsetX(c) == c[1] - center_x

\* mutant: the vertical offset in image coordinates, y growing downwards
OffsetYImage(c) == c[2] - center_y

\* line 170
OffsetY(c) == center_y - c[2]

\* mutant: the dead zone without its boundary
XCommandOpenZone(dx) ==
    IF dx <= -tolerance THEN "move_left"
    ELSE IF dx >= tolerance THEN "move_right"
    ELSE "none"

\* lines 172-175: the horizontal command of an offset, "none" inside the
\* dead zone
XCommand(dx) ==
    IF dx < -tolerance THEN "move_left"
    ELSE IF dx > tolerance THEN "move_right"
    ELSE "none"

\* lines 177-180: the vertical command
YCommand(dy) ==
    IF dy > tolerance THEN "move_up"
    ELSE IF dy < -tolerance THEN "move_down"
    ELSE "none"

\* mutant: the quit key is not acted on
QuitIgnored(k) == FALSE

\* lines 186-189: the quit key ends tracking
QuitKey(k) == k = "q"

\* mutant: the mask is not rendered
ShownFrameOnly(ws) == ws \cup {"Tello View"}

\* lines 182-183: cv2.imshow of the frame and of the mask
Shown(ws) == ws \cup {"Tello View", "Mask"}

\* lines 192-193 and 213-214: destroyAllWindows() runs when "Tello View" is
\* visible
CloseWindows(ws, cs) ==
    IF "Tello View" \in ws
      THEN <<{}, Append(cs, Call("destroyAllWindows", 0, TRUE))>>
      ELSE <<ws, cs>>

\* lines 139, 209: an exception raised in the try block; the finally block
\* is next
Raise(origin, cs) ==
    /\ pc' = "td_land"
    /\ exc' = origin
    /\ tdAt' = Len(cs)

----------------------------------------------------------------------------
(* utils/pid.py: class PID.  The gains, errors and intervals are integers; *)
(* the quotient of line 11 and the output of line 12 are kept as fractions *)
(* <<numerator, denominator>>, so that int() of line 14 has a fractional   *)
(* part to cut.                                                            *)

Abs(n) == IF n < 0 THEN -n ELSE n

\* the calls of update in one run, and the largest |integral| followed
MaxUpdates == 11
MaxIntegral == 120

Gains == {0, 1, 2}
Errors == {-45, 10, 50}
Dts == {0, 1, 2}
\* line 14: the limits of the return value
OutputLimit == 100

NoPID == [kp |-> 0, ki |-> 0, kd |-> 0, prev_error |-> 0, integral |-> 0]
NoUpdate == [error |-> 0, dt |-> 0, prev |-> 0, out |-> 0, raised |-> FALSE,
             n |-> 0, same |-> TRUE]

NoDetect == [contours |-> <<>>, center |-> <<>>, done |-> FALSE]

\* lines 2-7: PID(kp, ki, kd)
PIDNew(kp, ki, kd) ==
    [kp |-> kp, ki |-> ki, kd |-> kd, prev_error |-> 0, integral |-> 0]

\* mutant: the integral held inside the output limits (anti-windup)
PIDIntegralClamped(i, error, dt) ==
    LET v == i + error * dt
    IN  IF v > OutputLimit THEN OutputLimit
        ELSE IF v < -OutputLimit THEN -OutputLimit ELSE v

\* line 10: self.integral += error * dt
PIDIntegral(i, error, dt) == i + error * dt

\* mutant: the quotient taken whatever dt is
DerivativeUnguarded(dt) == TRUE

\* line 11: `if dt > 0`
DerivativeGuard(dt) == dt > 0

\* line 11: the quotient (error - prev_error) / dt raises ZeroDivisionError
\* when it is taken with dt = 0
DivisionRaises(dt) == DerivativeGuard(dt) /\ dt = 0

\* line 11: derivative, as a fraction
PIDDerivative(error, prev, dt) ==
    IF DerivativeGuard(dt) THEN <<error - prev, dt>> ELSE <<0, 1>>

\* line 12: output = kp * error + ki * integral + kd * derivative, as a
\* fraction over the denominator of the derivative
PIDOutput(p, error, d) ==
    <<(p.kp * error + p.ki * p.integral) * d[2] + p.kd * d[1], d[2]>>

\* mutant: rounding down instead of towards zero
FloorDiv(num, den) == num \div den

\* int() of a fraction with den > 0: towards zero
Trunc(num, den) == IF num >= 0 THEN num \div den ELSE -((-num) \div den)

\* line 14: int(max(min(output, 100), -100))
PIDReturn(o) ==
    IF o[1] > OutputLimit * o[2] THEN OutputLimit
    ELSE IF o[1] < -OutputLimit * o[2] THEN -OutputLimit
    ELSE Trunc(o[1], o[2])

\* lines 9-14: update(error, dt) on the object p, after the call u: the
\* object and the record of the call
PIDUpdate(p, u, error, dt) ==
    LET p1 == [p EXCEPT !.integral = PIDIntegral(p.integral, error, dt)]
        u1 == [u EXCEPT !.error = error, !.dt = dt, !.prev = p.prev_error,
                        !.n = u.n + 1,
                        !.same = u.same /\ (u.n = 0 \/ (u.error = error
                                                        /\ u.dt = dt))]
    IN  IF DivisionRaises(dt)
          THEN <<p1, [u1 EXCEPT !.raised = TRUE]>>
          ELSE LET o == PIDOutput(p1, error,
                                  PIDDerivative(error, p.prev_error, dt))
               IN  <<[p1 EXCEPT !.prev_error = error],
                     [u1 EXCEPT !.out = PIDReturn(o), !.raised = FALSE]>>

----------------------------------------------------------------------------
(* track_green_logo.py: detect_object, from the contours that findContours *)
(* returns, each with its contourArea and its boundingRect                 *)

\* the contours of one mask
MaxContours == 2

\* line 106: the area a contour must exceed
MinArea == 300

Areas == {299, 300, 301, 500}
\* bounding boxes with odd sides; the second has the centre (500, 100)
Boxes == {[x |-> 10, y |-> 20, w |-> 31, h |-> 41],
          [x |-> 490, y |-> 88, w |-> 21, h |-> 25]}
Contours == {[area |-> a, box |-> b] : a \in Areas, b \in Boxes}
ContourLists == UNION {[1..n -> Contours] : n \in 0..MaxContours}

\* line 105: max(contours, key=cv2.contourArea), the first of the largest
MaxContour(cs) ==
    cs[CHOOSE i \in DOMAIN cs :
          /\ \A j \in DOMAIN cs : cs[j].area <= cs[i].area
          /\ \A j \in 1..(i - 1) : cs[j].area < cs[i].area]

\* mutant: a contour of the threshold area is accepted
AreaAcceptedAtThreshold(a) == a >= MinArea

\* line 106: `if cv2.contourArea(c) > 300`
AreaAccepted(a) == a > MinArea

\* lines 107-108: the centre of the bounding box
BoxCenter(b) == <<b.x + b.w \div 2, b.y + b.h \div 2>>

\* lines 104-109: the centre returned for the contours cs, or None
DetectObject(cs) ==
    IF cs # <<>> /\ AreaAccepted(MaxContour(cs).area)
      THEN BoxCenter(MaxContour(cs).box)
      ELSE NoCenter

----------------------------------------------------------------------------
(* hsv_config.json between hsv_calibrator.py, which writes it, and         *)
(* load_hsv_config of track_green_logo.py, which reads it                  *)

\* lines 28-41: COLOR_PRESETS
COLOR_PRESETS ==
    [green |-> [lower |-> <<40, 70, 70>>, upper |-> <<80, 255, 255>>],
     red   |-> [lower |-> <<0, 120, 70>>, upper |-> <<10, 255, 255>>],
     blue  |-> [lower |-> <<100, 150, 0>>, upper |-> <<140, 255, 255>>]]

\* the answers to the prompt of line 60; "9" is any answer outside 1-4
Choices == {"1", "2", "3", "4", "9"}

\* hsv_calibrator.py lines 33-38: the positions a trackbar can take, among
\* 0..179 for the hue and 0..255 for saturation and value, and the positions
\* at creation
HPositions == {0, 40, 80, 179}
SVPositions == {70, 255}
Trackbars == {"hL", "sL", "vL", "hH", "sH", "vH"}
Positions(t) == IF t \in {"hL", "hH"} THEN HPositions ELSE SVPositions
InitialTrackbars ==
    [hL |-> 40, sL |-> 70, vL |-> 70, hH |-> 80, sH |-> 255, vH |-> 255]

\* hsv_config.json: absent, not JSON, or a JSON object; `by` tells who wrote
\* it
NoFile == [kind |-> "missing", by |-> "nobody", obj |-> [other |-> <<>>]]
\* the files a user may have left: none, one that is not JSON, objects
\* without the keys or with one of them, and ranges with values out of
\* their bounds or in them
UserFiles ==
    {NoFile,
     [kind |-> "garbage", by |-> "user", obj |-> [other |-> <<>>]],
     [kind |-> "json", by |-> "user", obj |-> [other |-> <<>>]],
     [kind |-> "json", by |-> "user", obj |-> [lower |-> <<40, 70, 70>>]],
     [kind |-> "json", by |-> "user",
      obj |-> [lower |-> <<200, 70, 70>>, upper |-> <<80, 300, 255>>]],
     [kind |-> "json", by |-> "user",
      obj |-> [lower |-> <<20, 100, 100>>, upper |-> <<30, 255, 255>>]]}

NoRange == [lower |-> <<>>, upper |-> <<>>]
NoConfig == [trackbars |-> InitialTrackbars, file |-> NoFile, choice |-> "",
             status |-> "idle", hsv |-> NoRange]

\* hsv_calibrator.py lines 49-57, 81-83: on 's' the positions are written as
\* {"lower": [hL, sL, vL], "upper": [hH, sH, vH]}
SavedFile(t) ==
    [kind |-> "json", by |-> "calibrator",
     obj |-> [lower |-> <<t.hL, t.sL, t.vL>>, upper |-> <<t.hH, t.sH, t.vH>>]]

\* lines 69-75: open and json.load raise for a missing file and for text
\* that is not JSON
LoadRaises(f) == f.kind \in {"missing", "garbage"}

\* lines 62-78: the dictionary chosen
ChosenHsv(choice, f) ==
    IF choice = "1" THEN COLOR_PRESETS.green
    ELSE IF choice = "2" THEN COLOR_PRESETS.red
    ELSE IF choice = "3" THEN COLOR_PRESETS.blue
    ELSE IF choice = "4"
      THEN IF LoadRaises(f) THEN COLOR_PRESETS.green ELSE f.obj
    ELSE COLOR_PRESETS.green

\* lines 80-81: hsv["lower"], hsv["upper"] raise KeyError for a missing key
KeyRaises(hsv) == ~({"lower", "upper"} \subseteq DOMAIN hsv)

\* lines 47-82: load_hsv_config with the answer `choice`: the status and the
\* range returned
LoadHsvConfig(choice, f) ==
    LET hsv == ChosenHsv(choice, f)
    IN  IF KeyRaises(hsv)
          THEN <<"crashed", NoRange>>
          ELSE <<"loaded", [lower |-> hsv.lower, upper |-> hsv.upper]>>

----------------------------------------------------------------------------
MainInit ==
    /\ pc = "input"
    /\ cmd = "none"
    /\ flying = FALSE
    /\ tracking = FALSE
    /\ center = NoCenter
    /\ key = "none"
    /\ windows = {}
    /\ calls = <<>>
    /\ hist = <<>>
    /\ nIter = 0
    /\ exc = "none"
    /\ tdAt = -1
    /\ tdExc = FALSE
    /\ quit = NoQuit

\* main() constructs no PID; its detect_object and load_hsv_config calls are
\* modelled apart
Init ==
    /\ MainInit
    /\ pid = NoPID
    /\ upd = NoUpdate
    /\ det = NoDetect
    /\ cfg = NoConfig

\* line 142: cmd = input(...).strip().lower(); input() may raise
ReadCmd ==
    /\ pc = "input"
    /\ \/ \E c \in Commands :
            /\ c # "exit" => Len(hist) < MaxCmds
            /\ cmd' = c
            /\ hist' = Append(hist, c)
            /\ pc' = "dispatch"
            /\ UNCHANGED <<exc, tdAt>>
       \/ /\ Raise("input", calls)
          /\ UNCHANGED <<cmd, hist>>
    /\ UNCHANGED <<flying, tracking, center, key, windows, calls, nIter,
                   tdExc, quit>>
    /\ UNCHANGED libVars

\* lines 144-150
CmdTakeoff ==
    /\ pc = "dispatch" /\ cmd = "takeoff"
    /\ IF TakeoffAllowed(flying)
         THEN \E ok \in BOOLEAN :
                /\ calls' = Append(calls, Call("takeoff", 0, ok))
                /\ IF ok
                     THEN /\ flying' = TRUE
                          /\ pc' = "input"
                          /\ UNCHANGED <<exc, tdAt>>
                     ELSE /\ Raise("actuator", calls')
                          /\ UNCHANGED flying
         ELSE /\ pc' = "input"
              /\ UNCHANGED <<flying, calls, exc, tdAt>>
    /\ UNCHANGED <<cmd, tracking, center, key, windows, hist, nIter, tdExc,
                   quit>>
    /\ UNCHANGED libVars

\* lines 152-157
CmdStart ==
    /\ pc = "dispatch" /\ cmd = "start"
    /\ IF StartAllowed(flying)
         THEN /\ tracking' = TRUE
              /\ pc' = "frame"
         ELSE /\ pc' = "input"
              /\ UNCHANGED tracking
    /\ UNCHANGED <<cmd, flying, center, key, windows, calls, hist, nIter,
                   exc, tdAt, tdExc, quit>>
    /\ UNCHANGED libVars

\* lines 160-166: the loop test, the frame, detect_object and `if center`;
\* lines 192-193 when the loop test fails
GetFrame ==
    /\ pc = "frame"
    /\ IF tracking
         THEN /\ \/ /\ nIter < MaxIters
                    /\ nIter' = nIter + 1
                    /\ \E c \in Centers \cup {NoCenter} :
                          /\ center' = c
                          /\ pc' = IF c # NoCenter THEN "moveX" ELSE "show"
                    /\ UNCHANGED <<exc, tdAt>>
                 \/ /\ Raise("frame", calls)
                    /\ UNCHANGED <<center, nIter>>
              /\ UNCHANGED <<windows, calls>>
         ELSE LET r == CloseWindows(windows, calls)
              IN  /\ windows' = r[1]
                  /\ calls' = r[2]
                  /\ pc' = "input"
                  /\ UNCHANGED <<center, nIter, exc, tdAt>>
    /\ UNCHANGED <<cmd, flying, tracking, key, hist, tdExc, quit>>
    /\ UNCHANGED libVars

\* one move_* call of the tracking loop, or none for "none"
Move(op, next) ==
    IF op = "none"
      THEN /\ pc' = next
           /\ UNCHANGED <<calls, exc, tdAt>>
      ELSE \E ok \in BOOLEAN :
             /\ calls' = Append(calls, Call(op, MoveDistance, ok))
             /\ IF ok
                  THEN /\ pc' = next
                       /\ UNCHANGED <<exc, tdAt>>
                  ELSE Raise("actuator", calls')

\* lines 169, 172-175
MoveX ==
    /\ pc = "moveX"
    /\ Move(XCommand(OffsetX(center)), "moveY")
    /\ UNCHANGED <<cmd, flying, tracking, center, key, windows, hist, nIter,
                   tdExc, quit>>
    /\ UNCHANGED libVars

\* lines 170, 177-180
MoveY ==
    /\ pc = "moveY"
    /\ Move(YCommand(OffsetY(center)), "show")
    /\ UNCHANGED <<cmd, flying, tracking, center, key, windows, hist, nIter,
                   tdExc, quit>>
    /\ UNCHANGED libVars

\* lines 182-193: both imshow calls, waitKey, and on 'q' the end of the loop
\* with the closing of the windows
ShowAndPoll ==
    /\ pc = "show"
    /\ \E k \in Keys :
          /\ key' = k
          /\ quit' = IF k = "q"
                       THEN [calls |-> Len(calls), cmds |-> Len(hist)]
                       ELSE quit
          /\ IF QuitKey(k)
               THEN LET r == CloseWindows(Shown(windows), calls)
                    IN  /\ tracking' = FALSE
                        /\ windows' = r[1]
                        /\ calls' = r[2]
                        /\ pc' = "input"
               ELSE /\ windows' = Shown(windows)
                    /\ pc' = "frame"
                    /\ UNCHANGED <<tracking, calls>>
    /\ UNCHANGED <<cmd, flying, center, hist, nIter, exc, tdAt, tdExc>>
    /\ UNCHANGED libVars

\* lines 195-201
CmdLand ==
    /\ pc = "dispatch" /\ cmd = "land"
    /\ IF LandAllowed(flying)
         THEN \E ok \in BOOLEAN :
                /\ calls' = Append(calls, Call("land", 0, ok))
                /\ IF ok
                     THEN /\ flying' = FALSE
                          /\ pc' = "input"
                          /\ UNCHANGED <<exc, tdAt>>
                     ELSE /\ Raise("actuator", calls')
                          /\ UNCHANGED flying
         ELSE /\ pc' = "input"
              /\ UNCHANGED <<flying, calls, exc, tdAt>>
    /\ UNCHANGED <<cmd, tracking, center, key, windows, hist, nIter, tdExc,
                   quit>>
    /\ UNCHANGED libVars

\* lines 203-204: break, into the finally block
CmdExit ==
    /\ pc = "dispatch" /\ cmd = "exit"
    /\ pc' = "td_land"
    /\ tdAt' = Len(calls)
    /\ UNCHANGED <<cmd, flying, tracking, center, key, windows, calls, hist,
                   nIter, exc, tdExc, quit>>
    /\ UNCHANGED libVars

\* lines 206-207
CmdUnknown ==
    /\ pc = "dispatch" /\ cmd = "other"
    /\ pc' = "input"
    /\ UNCHANGED <<cmd, flying, tracking, center, key, windows, calls, hist,
                   nIter, exc, tdAt, tdExc, quit>>
    /\ UNCHANGED libVars

\* lines 210-211: land() of the finally block; when it raises, the rest of
\* the block is not run
TeardownLand ==
    /\ pc = "td_land"
    /\ IF TeardownLands(flying)
         THEN \E ok \in BOOLEAN :
                /\ calls' = Append(calls, Call("land", 0, ok))
                /\ pc' = IF ok THEN "td_streamoff" ELSE "done"
                /\ tdExc' = ~ok
         ELSE /\ pc' = "td_streamoff"
              /\ UNCHANGED <<calls, tdExc>>
    /\ UNCHANGED <<cmd, flying, tracking, center, key, windows, hist, nIter,
                   exc, tdAt, quit>>
    /\ UNCHANGED libVars

\* line 212
TeardownStreamoff ==
    /\ pc = "td_streamoff"
    /\ \E ok \in BOOLEAN :
          /\ calls' = Append(calls, Call("streamoff", 0, ok))
          /\ pc' = IF ok THEN "td_windows" ELSE "done"
          /\ tdExc' = ~ok
    /\ UNCHANGED <<cmd, flying, tracking, center, key, windows, hist, nIter,
                   exc, tdAt, quit>>
    /\ UNCHANGED libVars

\* lines 213-215
TeardownWindows ==
    /\ pc = "td_windows"
    /\ LET r == CloseWindows(windows, calls)
       IN  /\ windows' = r[1]
           /\ calls' = r[2]
    /\ pc' = "done"
    /\ UNCHANGED <<cmd, flying, tracking, center, key, hist, nIter, exc,
                   tdAt, tdExc, quit>>
    /\ UNCHANGED libVars

Next ==
    \/ ReadCmd
    \/ CmdTakeoff
    \/ CmdStart
    \/ GetFrame
    \/ MoveX
    \/ MoveY
    \/ ShowAndPoll
    \/ CmdLand
    \/ CmdExit
    \/ CmdUnknown
    \/ TeardownLand
    \/ TeardownStreamoff
    \/ TeardownWindows

Spec == Init /\ [][Next]_vars

TypeOK ==
    /\ pc \in PCs
    /\ cmd \in Commands \cup {"none"}
    /\ flying \in BOOLEAN
    /\ tracking \in BOOLEAN
    /\ center \in Centers \cup {NoCenter}
    /\ key \in Keys
    /\ windows \subseteq {"Tello View", "Mask"}
    /\ nIter \in 0..MaxIters
    /\ exc \in {"none", "input", "frame", "actuator"}
    /\ tdExc \in BOOLEAN

----------------------------------------------------------------------------
(* The PID object alone: any gains, then any calls of update *)

InitPID ==
    /\ MainInit
    /\ \E kp \in Gains, ki \in Gains, kd \in Gains : pid = PIDNew(kp, ki, kd)
    /\ upd = NoUpdate
    /\ det = NoDetect
    /\ cfg = NoConfig

\* one call of update, with dt >= 0, on an object whose last call returned
update ==
    /\ upd.n < MaxUpdates
    /\ ~upd.raised
    /\ \E error \in Errors, dt \in Dts :
          /\ Abs(pid.integral + error * dt) <= MaxIntegral
          /\ LET r == PIDUpdate(pid, upd, error, dt)
             IN  /\ pid' = r[1]
                 /\ upd' = r[2]
    /\ UNCHANGED <<det, cfg>>
    /\ UNCHANGED mainVars

NextPID == update

SpecPID == InitPID /\ [][NextPID]_vars

----------------------------------------------------------------------------
(* detect_object alone: any contours, then the call *)

InitDetect ==
    /\ MainInit
    /\ pid = NoPID
    /\ upd = NoUpdate
    /\ \E cs \in ContourLists :
          det = [contours |-> cs, center |-> NoCenter, done |-> FALSE]
    /\ cfg = NoConfig

detect_object ==
    /\ ~det.done
    /\ det' = [det EXCEPT !.center = DetectObject(det.contours),
                          !.done = TRUE]
    /\ UNCHANGED <<pid, upd, cfg>>
    /\ UNCHANGED mainVars

NextDetect == detect_object

SpecDetect == InitDetect /\ [][NextDetect]_vars

----------------------------------------------------------------------------
(* The threshold file: the calibrator's trackbars and save key, then the   *)
(* tracker's load_hsv_config; the range of a session is the one loaded     *)

InitConfig ==
    /\ MainInit
    /\ pid = NoPID
    /\ upd = NoUpdate
    /\ det = NoDetect
    /\ \E f \in UserFiles : cfg = [NoConfig EXCEPT !.file = f]

\* the user moves a trackbar of the calibrator
CalSlide ==
    /\ cfg.status = "idle"
    /\ \E t \in Trackbars :
          \E v \in Positions(t) : cfg' = [cfg EXCEPT !.trackbars[t] = v]
    /\ UNCHANGED <<pid, upd, det>>
    /\ UNCHANGED mainVars

\* hsv_calibrator.py lines 80-84: the key 's'
CalSave ==
    /\ cfg.status = "idle"
    /\ cfg' = [cfg EXCEPT !.file = SavedFile(cfg.trackbars)]
    /\ UNCHANGED <<pid, upd, det>>
    /\ UNCHANGED mainVars

\* lines 47-82, called at line 117
load_hsv_config ==
    /\ cfg.status = "idle"
    /\ \E choice \in Choices :
          LET r == LoadHsvConfig(choice, cfg.file)
          IN  cfg' = [cfg EXCEPT !.choice = choice, !.status = r[1],
                                 !.hsv = r[2]]
    /\ UNCHANGED <<pid, upd, det>>
    /\ UNCHANGED mainVars

NextConfig ==
    \/ CalSlide
    \/ CalSave
    \/ load_hsv_config

SpecConfig == InitConfig /\ [][NextConfig]_vars

----------------------------------------------------------------------------
(* Operators on the recorded calls *)

Ops == [i \in DOMAIN calls |-> calls[i].op]
Count(op) == Cardinality({i \in DOMAIN calls : calls[i].op = op})
CountBefore(op, n) == Cardinality({i \in 1..(n - 1) : calls[i].op = op})
\* the indices of the calls made after the first n
After(n) == (n + 1)..Len(calls)
\* this step makes a call: it appends one record to calls
Calls(op) == Len(calls') = Len(calls) + 1 /\ calls'[Len(calls')].op = op
CallsAny(ops) == Len(calls') = Len(calls) + 1 /\ calls'[Len(calls')].op \in ops
DroneOps == Motions \cup {"takeoff", "land", "streamoff"}

----------------------------------------------------------------------------
(* C1: a `start` command read while the drone is not flying is rejected:  *)
(* the tracking loop is not entered, no call is made to the drone, and     *)
(* flying and tracking are unchanged, before any takeoff and after a land. *)
C1_StartRejected ==
    [][(pc = "dispatch" /\ cmd = "start" /\ ~flying)
          => (pc' = "input" /\ UNCHANGED <<flying, tracking, calls>>)]_vars

\* `start` was rejected after a takeoff and a land
C1_Witness ==
    /\ pc = "input"
    /\ hist = <<"takeoff", "land", "start">>
    /\ Ops = <<"takeoff", "land">>
    /\ ~flying /\ ~tracking

(* C2: in a run that ends by `exit` with no failed call, there is one      *)
(* land() per takeoff(), land() is never called unless the preceding       *)
(* takeoff() is still unlanded, every land() precedes the one streamoff(), *)
(* and [start, takeoff, start, land, exit] makes exactly one land(), by    *)
(* the land command, before the teardown.                                  *)
C2_NormalExit ==
    /\ pc = "done"
    /\ exc = "none"
    /\ \A i \in DOMAIN calls : calls[i].ok

C2_LandPerTakeoff ==
    C2_NormalExit =>
      /\ Count("land") = Count("takeoff")
      /\ \A i \in DOMAIN calls :
            calls[i].op = "land" =>
               CountBefore("takeoff", i) = CountBefore("land", i) + 1
      /\ Count("streamoff") = 1
      /\ \A i, j \in DOMAIN calls :
            (calls[i].op = "land" /\ calls[j].op = "streamoff") => i < j
      /\ (hist = <<"start", "takeoff", "start", "land", "exit">>) =>
            /\ Count("land") = 1
            /\ \E i \in 1..tdAt : calls[i].op = "land"

\* the sequence of the spec, with a tracking session that moved the drone
C2_Witness ==
    /\ C2_NormalExit
    /\ hist = <<"start", "takeoff", "start", "land", "exit">>
    /\ Count("land") = 1
    /\ \E i \in DOMAIN calls : calls[i].op \in Motions

(* C3: on every exit path out of the command loop the teardown runs once   *)
(* and whole: land() if flying, then streamoff(), then the closing of the  *)
(* windows that exist, none skipped.                                       *)
C3_TeardownWhole ==
    pc = "done" =>
      /\ SubSeq(Ops, tdAt + 1, Len(calls)) \in
            { (IF flying THEN <<"land">> ELSE <<>>) \o <<"streamoff">>,
              (IF flying THEN <<"land">> ELSE <<>>)
                 \o <<"streamoff", "destroyAllWindows">> }
      /\ windows = {}

(* C4: when the frame acquisition, or any other call, raises while the     *)
(* drone is flying, the tracking loop and the command loop are left, no    *)
(* motion command follows, and land() is attempted before the end.         *)
C4_FailureLands ==
    (exc # "none") =>
      /\ pc \in {"td_land", "td_streamoff", "td_windows", "done"}
      /\ \A i \in After(tdAt) : calls[i].op \notin Motions
      /\ (flying /\ pc # "td_land") =>
            (Len(calls) > tdAt /\ calls[tdAt + 1].op = "land")

\* a frame failure during tracking, after a motion command, then the landing
C4_Witness ==
    /\ pc = "done"
    /\ exc = "frame"
    /\ tracking /\ flying
    /\ \E i \in 1..tdAt : calls[i].op \in Motions
    /\ Len(calls) > tdAt /\ calls[tdAt + 1].op = "land"

(* C5, as claimed: once the quit key is received no motion command is      *)
(* issued any more, and the next call to the drone is the landing.         *)
C5_QuitLands ==
    (quit # NoQuit) =>
      /\ \A i \in After(quit.calls) : calls[i].op \notin Motions
      /\ \A i \in After(quit.calls) :
            (calls[i].op \in DroneOps
               /\ \A j \in (quit.calls + 1)..(i - 1) : calls[j].op \notin DroneOps)
              => calls[i].op = "land"

(* C5, amended: the quit key, polled at the end of each iteration, stops   *)
(* the motion commands until a later `start` command; it makes no landing  *)
(* of its own, the drone stays flying; the landing comes with a later land *)
(* command or the teardown, and precedes the release of the stream.        *)
C5_QuitStopsMotion ==
    (quit # NoQuit) =>
      /\ (\A n \in (quit.cmds + 1)..Len(hist) : hist[n] # "start") =>
            \A i \in After(quit.calls) : calls[i].op \notin Motions
      /\ (Len(hist) = quit.cmds /\ tdAt = -1) =>
            (flying /\ \A i \in After(quit.calls) : calls[i].op \notin DroneOps)
      /\ (pc \in {"td_streamoff", "td_windows", "done"}) =>
            \E i \in After(quit.calls) : calls[i].op = "land"
      /\ \A i, j \in DOMAIN calls :
            (calls[i].op = "land" /\ calls[j].op = "streamoff") => i < j

\* a tracking session that moved the drone and was ended by the quit key;
\* the landing came later, with the exit, before the release of the stream
C5_Witness ==
    /\ pc = "done"
    /\ quit # NoQuit
    /\ hist = <<"takeoff", "start", "exit">>
    /\ \E i \in 1..quit.calls : calls[i].op \in Motions
    /\ Len(calls) >= quit.calls + 3
    /\ calls[quit.calls + 1].op = "destroyAllWindows"
    /\ calls[quit.calls + 2].op = "land"
    /\ calls[quit.calls + 3].op = "streamoff"

(* C6: the quit key received during tracking moves the machine from       *)
(* Tracking to Flying: tracking becomes false, flying stays true, no call  *)
(* is made to the drone, the next command is read, and a `start` read      *)
(* while flying enters the tracking loop again with no new takeoff.        *)
C6_QuitToFlying ==
    [][/\ (pc = "show" /\ key' = "q") =>
             /\ flying /\ flying'
             /\ ~tracking'
             /\ pc' = "input"
             /\ ~CallsAny(DroneOps)
       /\ (pc = "dispatch" /\ cmd = "start" /\ flying) =>
             /\ tracking' /\ flying'
             /\ pc' = "frame"
             /\ calls' = calls]_vars

\* a second tracking session after the quit key, on the one takeoff
C6_Witness ==
    /\ pc = "moveX"
    /\ quit # NoQuit
    /\ hist = <<"takeoff", "start", "start">>
    /\ flying /\ tracking
    /\ Count("takeoff") = 1 /\ Count("land") = 0

(* C7: a `takeoff` command read while the drone is flying does nothing:    *)
(* takeoff() is never called while flying is true, and flying, tracking    *)
(* and the calls are unchanged.                                            *)
C7_TakeoffNoop ==
    [][/\ (pc = "dispatch" /\ cmd = "takeoff" /\ flying) =>
             (pc' = "input" /\ UNCHANGED <<flying, tracking, calls>>)
       /\ Calls("takeoff") => ~flying]_vars

\* a second takeoff command, answered by no call
C7_Witness ==
    /\ pc = "input"
    /\ hist = <<"takeoff", "takeoff">>
    /\ Ops = <<"takeoff">>
    /\ flying

(* C8: while the tracking loop runs, flying and tracking are true, no      *)
(* command is read and no takeoff(), land() or streamoff() is called; a    *)
(* motion command is called only from the tracking loop, with flying and   *)
(* tracking true.                                                          *)
C8_LoopOwnsChannel ==
    [][/\ (pc \in LoopPCs) =>
             /\ flying /\ tracking
             /\ hist' = hist
             /\ ~CallsAny({"takeoff", "land", "streamoff"})
       /\ CallsAny(Motions) =>
             (flying /\ tracking /\ pc \in {"moveX", "moveY"})]_vars

\* the loop has sent a horizontal motion command and goes on
C8_Witness ==
    /\ pc = "moveY"
    /\ flying /\ tracking
    /\ Len(calls) >= 2
    /\ calls[Len(calls)].op \in {"move_left", "move_right"}
    /\ calls[Len(calls)].ok

(* C9: dead zone: on each axis an offset with |offset| <= tolerance, 40    *)
(* included, makes no motion command on that axis, and a motion command on *)
(* an axis is made only with |offset| > tolerance.                         *)
C9_DeadZone ==
    [][/\ (pc = "moveX") =>
             IF Abs(center[1] - center_x) <= tolerance
               THEN calls' = calls /\ pc' = "moveY"
               ELSE CallsAny({"move_left", "move_right"})
       /\ (pc = "moveY") =>
             IF Abs(center_y - center[2]) <= tolerance
               THEN calls' = calls /\ pc' = "show"
               ELSE CallsAny({"move_up", "move_down"})
       /\ CallsAny({"move_left", "move_right"}) =>
             (pc = "moveX" /\ Abs(center[1] - center_x) > tolerance)
       /\ CallsAny({"move_up", "move_down"}) =>
             (pc = "moveY" /\ Abs(center_y - center[2]) > tolerance)]_vars

\* an iteration with the horizontal offset on the boundary, 40, and no
\* motion command
C9_Witness ==
    /\ pc = "show"
    /\ nIter = 1
    /\ tolerance = 40
    /\ center # NoCenter
    /\ center[1] - center_x = 40
    /\ \A i \in DOMAIN calls : calls[i].op \notin Motions

(* C10: the direction of a motion command is the sign of the offset:       *)
(* dx < 0 left, dx > 0 right, dy > 0 up, dy < 0 down, never the opposite,  *)
(* with a distance > 0; in the 640x480 frame the centre (500, 100) has the *)
(* offset (180, 140) and makes a right and an up command.                  *)
C10_Direction ==
    [][LET dx == center[1] - center_x
           dy == center_y - center[2]
       IN  /\ Calls("move_left") => dx < 0
           /\ Calls("move_right") => dx > 0
           /\ Calls("move_up") => dy > 0
           /\ Calls("move_down") => dy < 0
           /\ CallsAny(Motions) => calls'[Len(calls')].arg > 0
           /\ (pc = "moveX" /\ dx < -tolerance) => Calls("move_left")
           /\ (pc = "moveX" /\ dx > tolerance) => Calls("move_right")
           /\ (pc = "moveY" /\ dy > tolerance) => Calls("move_up")
           /\ (pc = "moveY" /\ dy < -tolerance) => Calls("move_down")
           /\ (center = <<500, 100>>) =>
                 /\ frame_width = 640 /\ frame_height = 480
                 /\ dx = 180 /\ dy = 140
                 /\ (pc = "moveX") => Calls("move_right")
                 /\ (pc = "moveY") => Calls("move_up")]_vars

\* the iteration of the end-to-end scenario, after its two commands
C10_Witness ==
    /\ pc = "show"
    /\ center = <<500, 100>>
    /\ Len(calls) >= 3
    /\ calls[Len(calls) - 1] = Call("move_right", MoveDistance, TRUE)
    /\ calls[Len(calls)] = Call("move_up", MoveDistance, TRUE)

(* C11: an iteration in which detect_object finds nothing makes no motion  *)
(* command, still renders the frame and the mask, still polls the key,     *)
(* and, unless the key is 'q', goes on to the next frame with flying and   *)
(* tracking unchanged.                                                     *)
C11_AbsentDetection ==
    [][/\ (pc = "frame" /\ tracking /\ nIter' = nIter + 1
             /\ center' = NoCenter) =>
             (pc' = "show" /\ UNCHANGED <<flying, tracking, calls, windows>>)
       /\ (pc = "show" /\ center = NoCenter) =>
             IF key' = "q"
               THEN /\ quit' = [calls |-> Len(calls), cmds |-> Len(hist)]
                    /\ Calls("destroyAllWindows")
                    /\ windows' = {}
               ELSE /\ key' \in Keys
                    /\ pc' = "frame"
                    /\ {"Tello View", "Mask"} \subseteq windows'
                    /\ UNCHANGED <<flying, tracking, calls>>]_vars

\* an iteration without detection has ended and the loop is at the next frame
C11_Witness ==
    /\ pc = "frame"
    /\ nIter = 1
    /\ center = NoCenter
    /\ flying /\ tracking
    /\ windows = {"Tello View", "Mask"}
    /\ Ops = <<"takeoff">>

(* C12: a motion command that fails during tracking is transient: the     *)
(* loop goes on, and no exception leaves the loop for the finally block.   *)
C12_MotionFailureTransient ==
    \A i \in DOMAIN calls :
       (calls[i].op \in Motions /\ ~calls[i].ok) => ~(exc # "none" /\ tdAt = i)

(* C20: flying changes only with a call that returned: it is true exactly  *)
(* when a takeoff() has returned that no land() of the land command has    *)
(* followed; after a takeoff() that raised the teardown makes no land(),   *)
(* after a land() of the land command that raised the teardown makes a     *)
(* second land().                                                          *)
C20_OkTakeoffs ==
    Cardinality({i \in DOMAIN calls : calls[i].op = "takeoff" /\ calls[i].ok})

\* the land() calls of the land command that returned: those of the finally
\* block come after tdAt
C20_OkLandCmds ==
    Cardinality({i \in DOMAIN calls :
                    /\ calls[i].op = "land" /\ calls[i].ok
                    /\ (tdAt = -1 \/ i <= tdAt)})

C20_FlyingFollowsCalls ==
    /\ C20_OkTakeoffs - C20_OkLandCmds = (IF flying THEN 1 ELSE 0)
    /\ (exc = "actuator" /\ calls[tdAt].op = "takeoff") =>
          /\ ~calls[tdAt].ok
          /\ ~flying
          /\ \A i \in After(tdAt) : calls[i].op # "land"
    /\ (exc = "actuator" /\ calls[tdAt].op = "land") =>
          /\ ~calls[tdAt].ok
          /\ flying
          /\ (pc # "td_land") =>
                (Len(calls) > tdAt /\ calls[tdAt + 1].op = "land")

\* the land command failed, and the teardown landed again and went on
C20_Witness ==
    /\ pc = "done"
    /\ hist = <<"takeoff", "land">>
    /\ flying
    /\ Len(calls) = 4
    /\ calls[2] = Call("land", 0, FALSE)
    /\ calls[3] = Call("land", 0, TRUE)
    /\ calls[4].op = "streamoff"

(* C14: every update(error, dt) with dt >= 0 returns an integer in         *)
(* [-100, 100]: kp*error + ki*integral + kd*derivative, cut towards zero   *)
(* and held inside the limits.                                             *)
C14_PIDReturn ==
    (upd.n >= 1) =>
      LET den == IF upd.dt > 0 THEN upd.dt ELSE 1
          dnum == IF upd.dt > 0 THEN upd.error - upd.prev ELSE 0
          \* the output is num / den
          num == (pid.kp * upd.error + pid.ki * pid.integral) * den
                    + pid.kd * dnum
          out == upd.out
      IN  /\ ~upd.raised
          /\ out \in -100..100
          /\ IF num >= 100 * den THEN out = 100
             ELSE IF num <= -100 * den THEN out = -100
             ELSE IF num >= 0
               THEN out * den <= num /\ num < (out + 1) * den
               ELSE (out - 1) * den < num /\ num <= out * den

\* the output -22.5, returned as -22
C14_Witness ==
    /\ upd.n >= 1
    /\ pid.kp = 0 /\ pid.ki = 0 /\ pid.kd = 1
    /\ upd.error = -45 /\ upd.prev = 0 /\ upd.dt = 2
    /\ upd.out = -22

(* C15: the state persists over the calls: with gains (1, 0, 0)            *)
(* update(50, 1) returns 50; with gains (0, 1, 0) the n-th update(10, 1)   *)
(* in a row returns min(10 n, 100) while the integral is 10 n, beyond 100  *)
(* too.                                                                    *)
C15_Accumulates ==
    /\ (pid.kp = 1 /\ pid.ki = 0 /\ pid.kd = 0 /\ upd.n >= 1
          /\ upd.error = 50 /\ upd.dt = 1) => upd.out = 50
    /\ (pid.kp = 0 /\ pid.ki = 1 /\ pid.kd = 0 /\ upd.n >= 1 /\ upd.same
          /\ upd.error = 10 /\ upd.dt = 1) =>
          /\ pid.integral = 10 * upd.n
          /\ upd.out = (IF 10 * upd.n < 100 THEN 10 * upd.n ELSE 100)

\* the eleventh update(10, 1): the integral is 110, the return value 100
C15_Witness ==
    /\ pid.kp = 0 /\ pid.ki = 1 /\ pid.kd = 0
    /\ upd.same /\ upd.error = 10 /\ upd.dt = 1
    /\ upd.n = 11
    /\ pid.integral = 110
    /\ upd.out = 100

(* C16: an iteration with a detection calls update once for each axis, and *)
(* the distance of each motion command is |output| of the axis's PID.      *)
C16_PIDDrivesMotion ==
    /\ (pc = "show" /\ center # NoCenter) => upd.n >= 2
    /\ \A i \in DOMAIN calls :
          calls[i].op \in Motions =>
             (upd.n >= 1 /\ calls[i].arg = Abs(upd.out))

(* C19: update with dt = 0 does not divide: it returns, the integral is    *)
(* unchanged, prev_error becomes the error, and the return value is        *)
(* kp*error + ki*integral held inside [-100, 100].                         *)
C19_ZeroDt ==
    [][(upd'.n = upd.n + 1 /\ upd'.dt = 0) =>
          LET v == pid.kp * upd'.error + pid.ki * pid.integral
          IN  /\ ~upd'.raised
              /\ pid'.integral = pid.integral
              /\ pid'.prev_error = upd'.error
              /\ upd'.out = (IF v > 100 THEN 100
                             ELSE IF v < -100 THEN -100 ELSE v)]_vars

\* a call with dt = 0 on an object with a derivative gain, an integral and
\* another previous error
C19_Witness ==
    /\ upd.n >= 2
    /\ upd.dt = 0
    /\ ~upd.raised
    /\ pid.kd > 0
    /\ pid.integral # 0
    /\ upd.error # upd.prev
    /\ pid.prev_error = upd.error
    /\ upd.out = pid.kp * upd.error + pid.ki * pid.integral

(* C17: detect_object returns the centre (x + w div 2, y + h div 2) of the *)
(* bounding box of the contour of largest area when that area exceeds 300, *)
(* and nothing when there is no contour or the largest area is <= 300.     *)
C17_Locate ==
    det.done =>
      LET cs == det.contours
          largest == {i \in DOMAIN cs :
                        \A j \in DOMAIN cs : cs[j].area <= cs[i].area}
      IN  IF cs = <<>> \/ \A i \in DOMAIN cs : cs[i].area <= 300
            THEN det.center = NoCenter
            ELSE \E i \in largest :
                    /\ \A j \in largest : i <= j
                    /\ det.center = <<cs[i].box.x + cs[i].box.w \div 2,
                                      cs[i].box.y + cs[i].box.h \div 2>>

\* the largest contour has the area 300 exactly: nothing is returned
C17_Witness ==
    /\ det.done
    /\ Len(det.contours) = 2
    /\ det.contours[1].area = 299
    /\ det.contours[2].area = 300
    /\ det.center = NoCenter

(* C13: an invalid threshold configuration never ends the session: with  *)
(* the answer 4 and a file that is missing, not JSON, without the keys     *)
(* lower and upper, or with values out of their bounds, and with an answer *)
(* outside 1-4, load_hsv_config returns the green preset.                  *)
C13_InBounds(r) ==
    /\ Len(r.lower) = 3 /\ Len(r.upper) = 3
    /\ \A i \in 1..3 :
          /\ 0 <= r.lower[i] /\ r.lower[i] <= (IF i = 1 THEN 179 ELSE 255)
          /\ 0 <= r.upper[i] /\ r.upper[i] <= (IF i = 1 THEN 179 ELSE 255)

C13_InvalidFile(f) ==
    \/ f.kind \in {"missing", "garbage"}
    \/ ~({"lower", "upper"} \subseteq DOMAIN f.obj)
    \/ ~C13_InBounds(f.obj)

C13_FallsBackToGreen ==
    (/\ cfg.status # "idle"
     /\ \/ cfg.choice \notin {"1", "2", "3", "4"}
        \/ cfg.choice = "4" /\ C13_InvalidFile(cfg.file)) =>
       /\ cfg.status = "loaded"
       /\ cfg.hsv = [lower |-> <<40, 70, 70>>, upper |-> <<80, 255, 255>>]

(* C18: the range of a session, from a preset or from a file saved by the  *)
(* calibrator and loaded with the answer 4, has lower[i] <= upper[i] on    *)
(* each channel, h in [0, 179] and s, v in [0, 255].                       *)
C18_RangeValid ==
    (/\ cfg.status = "loaded"
     /\ cfg.choice # "4" \/ cfg.file.by = "calibrator") =>
       /\ C13_InBounds(cfg.hsv)
       /\ \A i \in 1..3 : cfg.hsv.lower[i] <= cfg.hsv.upper[i]

====
